---- MODULE Spec2Model ----
(***************************************************************************)
(* Aurora Recorder: the capture orchestration of aurora_recorder.py and    *)
(* the finalization worker / standby armer of aurora_io.py.                *)
(*                                                                         *)
(* The driving loop (play_and_record_playlist + record_one_track_blocking, *)
(* or manual_follow_current) is one sequential process with a program      *)
(* counter; finalization_worker threads run concurrently with it. The      *)
(* remote playback service, the capture subprocesses, the file system and  *)
(* the clock are the environment: every poll may return any snapshot, a    *)
(* standby capture may exit on its own, file operations may fail, and a    *)
(* KeyboardInterrupt may land before any step of the driving loop.         *)
(***************************************************************************)
EXTENDS Integers, Sequences, FiniteSets, TLC

\* ---------------------------------------------------------------- bounds
NTracks == 2      \* identifiers in the resolved list (uris)
MaxRec == 2       \* seconds a finalize may measure since the arm timestamp
MaxFaults == 1    \* departures of the environment from the plain run, per run
FullSize == 60000 \* bytes of a capture that ran its course
MaxStamp == 2     \* values int(time.time()) takes while standby files are named
MaxPolls == 2     \* polls of the follow loop

\* ------------------------------------------------------ program constants
TAIL_MS == 200                \* aurora_recorder.py:160, 510
SHORTFALL_MS == 3000          \* aurora_io.py:189
WORKER_MIN_BYTES == 1024      \* aurora_io.py:173
MIN_FILE_BYTES == 20 * 1024   \* aurora_recorder.py:280
CHECK_MIN_BYTES == 50 * 1024  \* aurora_recorder.py:431

STOPPED == "Playback stopped or track unavailable"
CHANGED == "Track changed"
FINISHED == "Track finished"
SHUTDOWN == "Shutdown"

\* ------------------------------------------------ environment value sets
DurChoices == {0, 5000}                 \* duration_ms a snapshot may carry
ProgChoices == {0, 4799, 4800, 5000}    \* progress_ms a snapshot may carry
SizeChoices == {500, 2000, FullSize}    \* bytes a capture may leave behind

\* None of current_track(): the snapshot is absent
NoMeta == [present |-> FALSE, id |-> 0, is_playing |-> FALSE,
           duration_ms |-> 0, progress_ms |-> 0]

\* what current_track() may return; id 0 is an item without an id
Snapshots ==
    {NoMeta} \cup [present : {TRUE}, id : 0..NTracks, is_playing : BOOLEAN,
                   duration_ms : DurChoices, progress_ms : ProgChoices]

\* paths: dir is "__arming__", "__standby__", "final" or "none" (Python None)
NoPath == [dir |-> "none", n |-> 0]
ArmingPath(i) == [dir |-> "__arming__", n |-> i]
\* int(time.time()) at the moments ensure_standby names a file
Stamps == 1..MaxStamp
StandbyPath(t) == [dir |-> "__standby__", n |-> t]
\* target_dir / out_filename(meta): one final path per track identity
FinalPath(id) == [dir |-> "final", n |-> id]

\* current_recording_info = {}
EmptyInfo == [task_no |-> 0, process_obj |-> 0, track_id |-> 0,
              audio_path |-> NoPath, final_path |-> NoPath,
              metadata |-> [id |-> 0, duration_ms |-> 0], stop_reason |-> "",
              rewrite_enabled |-> FALSE]

\* the fields of a snapshot that a task's metadata is read for later
Meta(m) == [id |-> m.id, duration_ms |-> m.duration_ms]

VARIABLES
    mode,                    \* "seq": play_and_record_playlist, "follow": manual_follow_current
    skip_existing_file,      \* st["skip_existing_file"]
    rewrite_headers_enabled, \* st["rewrite_headers_enabled"]
    pc,                      \* position of the driving loop
    idx,                     \* i of "for i, uri in enumerate(uris, 1)"
    meta_preview,            \* id of the preview metadata, 0 when it is None
    ff_proc,                 \* ff_proc of play_and_record_playlist
    final_out,               \* final_out, recomputed from meta_now
    meta,                    \* meta of record_one_track_blocking's loop
    stop_reason,             \* stop_reason of the monitoring loop
    raising,                 \* a KeyboardInterrupt is propagating through a finally
    faults,                  \* departures of the environment so far
    interrupted,             \* the user interruption has been delivered
    current_ffmpeg_process,  \* aurora_recorder.current_ffmpeg_process, 0 is None
    current_recording_info,  \* aurora_recorder.current_recording_info
    io_standby_proc,         \* aurora_io.standby_ffmpeg_process
    io_standby_file,         \* aurora_io.standby_file
    loc_standby_proc,        \* manual_follow_current's local standby_ffmpeg_process
    loc_standby_file,        \* manual_follow_current's local standby_file
    polls,                   \* polls made by the follow loop
    procs,                   \* capture processes ever spawned by start_ffmpeg
    files,                   \* the file system: path -> [size, tag, origin]
    finalization_task_queue, \* queue.Queue of task dicts
    stop_worker_event,       \* threading.Event
    workers,                 \* finalization_worker threads ever started
    tasks_made,              \* number of tasks registered so far
    putlog,                  \* every task ever put on the queue, in order
    metalog,                 \* aurora_metadata.jsonl
    failed,                  \* failed_tracks.txt
    measured,                \* history: rec_sec each duration check measured
    embedded,                \* tasks embed_flac was called for
    playcmds,                \* loop indexes start_playback was issued for
    skipped,                 \* loop indexes passed over as already recorded
    play_failed,             \* loop indexes whose start_playback call raised
    settled,                 \* tasks whose post-stop sleep(gap_seconds) is over
    donelog                  \* every task_done() of a worker: by whom, how it ended

vars == <<mode, skip_existing_file, rewrite_headers_enabled, faults, pc, idx,
          meta_preview, ff_proc, final_out, meta, stop_reason,
          raising, interrupted,
          current_ffmpeg_process, current_recording_info, io_standby_proc,
          io_standby_file, loc_standby_proc, loc_standby_file, polls, procs,
          files, finalization_task_queue, stop_worker_event, workers,
          tasks_made, putlog, metalog, failed, measured, embedded, playcmds,
          skipped, play_failed, settled, donelog>>

\* the driving loop's locals, its globals, and the rest, grouped for UNCHANGED
locVars == <<idx, meta_preview, ff_proc, final_out, meta, stop_reason>>
curVars == <<current_ffmpeg_process, current_recording_info>>
sbyVars == <<io_standby_proc, io_standby_file, loc_standby_proc, loc_standby_file>>
cfgVars == <<mode, skip_existing_file, rewrite_headers_enabled>>
logVars == <<metalog, failed, measured, embedded, donelog>>
drvLog == <<playcmds, skipped, play_failed, settled>>
sigVars == <<cfgVars, interrupted, raising>>
envVars == <<sigVars, faults>>

\* ----------------------------------------------------------- file system
NoFiles == <<>>
Exists(p) == p \in DOMAIN files
RemoveNothing(fs, p) == fs
Remove(fs, p) == [q \in DOMAIN fs \ {p} |-> fs[q]]
Store(fs, p, f) == [q \in DOMAIN fs \cup {p} |-> IF q = p THEN f ELSE fs[q]]

\* what a capture process leaves at its output path when it ends: a file of
\* some size, or nothing (out = 0)
Leave(fs, p, out) ==
    IF out = 0 THEN fs
    ELSE Store(fs, p, [size |-> out, tag |-> 0, origin |-> p.dir])

\* ------------------------------------------------------ capture processes
\* start_ffmpeg: a new process writing to out_path; its handle is its index
Spawned(ps, out_path, i) ==
    Append(ps, [file |-> out_path, alive |-> TRUE, killed |-> FALSE, idx |-> i])

\* kill_ffmpeg(p): 'q' on stdin, communicate, kill on timeout; None is ignored
KillFfmpegBroken(ps, p) == ps
KillFfmpeg(ps, p) ==
    IF p = 0 THEN ps
    ELSE [ps EXCEPT ![p] = [@ EXCEPT !.alive = FALSE, !.killed = TRUE]]

\* the file system once process p has ended, if it was still running
Ended(fs, ps, p, out) ==
    IF p # 0 /\ ps[p].alive THEN Leave(fs, ps[p].file, out) ELSE fs

Outcomes == {0} \cup SizeChoices

\* the plain run: every capture leaves a full file, every snapshot taken to
\* confirm a start shows the requested track with its duration, every file
\* operation and lookup succeeds. The environment departs from it at most
\* MaxFaults times in a run; Cost counts a departure, Charge books them.
Cost(departs) == IF departs THEN 1 ELSE 0
Charge(n) == faults + n <= MaxFaults /\ faults' = faults + n

\* ------------------------------------------------------------ the queue
\* finalization_task_queue.put(snap), snap = info.copy() with its stop reason
Snap(info, reason) == [info EXCEPT !.stop_reason = reason]

\* ------------------------------------------------------- the stop decision
MaxOf(a, b) == IF a >= b THEN a ELSE b

\* the if/elif/else of record_one_track_blocking and manual_follow_current;
\* "" is stop_reason = None
StopReasonIdFirst(m, track_id) ==
    IF m.present /\ m.id # track_id THEN CHANGED
    ELSE IF ~m.present \/ ~m.is_playing THEN STOPPED
    ELSE IF m.duration_ms > 0
            /\ m.progress_ms >= MaxOf(0, m.duration_ms - TAIL_MS)
         THEN FINISHED ELSE ""
StopReason(m, track_id) ==
    IF ~m.present \/ ~m.is_playing THEN STOPPED
    ELSE IF m.id # track_id THEN CHANGED
    ELSE IF m.duration_ms > 0
            /\ m.progress_ms >= MaxOf(0, m.duration_ms - TAIL_MS)
         THEN FINISHED ELSE ""

\* ------------------------------------------------------------------ Init
Uris == [i \in 1..NTracks |-> i]

\* the first track's final path may hold an earlier run's file: 1 a tagged
\* recording, 2 a recording without the identity tag
PriorFile(t, k) ==
    [size |-> FullSize, tag |-> IF k = 1 THEN t ELSE 0, origin |-> "prior"]

Init ==
    /\ \/ /\ mode = "seq"
          /\ pc = "seq_preview"
          /\ \E k \in {0, 1, 2} :
               /\ skip_existing_file = (k # 0)
               /\ files = IF k = 0 THEN NoFiles
                          ELSE [p \in {FinalPath(1)} |-> PriorFile(1, k)]
       \/ /\ mode = "follow"
          /\ pc = "fol_start"
          /\ skip_existing_file = TRUE
          /\ files = NoFiles
    /\ rewrite_headers_enabled \in BOOLEAN
    /\ idx = 1
    /\ meta_preview = 0
    /\ ff_proc = 0
    /\ final_out = NoPath
    /\ meta = NoMeta
    /\ stop_reason = ""
    /\ raising = FALSE
    /\ interrupted = FALSE
    /\ faults = 0
    /\ current_ffmpeg_process = 0
    /\ current_recording_info = EmptyInfo
    /\ io_standby_proc = 0
    /\ io_standby_file = NoPath
    /\ loc_standby_proc = 0
    /\ loc_standby_file = NoPath
    /\ polls = 0
    /\ procs = <<>>
    /\ finalization_task_queue = <<>>
    /\ stop_worker_event = FALSE
    /\ workers = <<>>
    /\ tasks_made = 0
    /\ putlog = <<>>
    /\ metalog = <<>>
    /\ failed = {}
    /\ measured = {}
    /\ embedded = {}
    /\ playcmds = <<>>
    /\ skipped = {}
    /\ play_failed = {}
    /\ settled = {}
    /\ donelog = <<>>

\* ------------------------------------------------ play_and_record_playlist
\* "continue" / the end of the for body: the next uri, the locals rebound
NextTrack ==
    /\ idx' = idx + 1
    /\ pc' = IF idx < NTracks THEN "seq_preview" ELSE "done"
    /\ meta_preview' = 0
    /\ ff_proc' = 0
    /\ final_out' = NoPath
    /\ meta' = NoMeta
    /\ stop_reason' = ""

\* sp.track(tid): the preview metadata, None when the lookup raises
SeqPreview ==
    /\ pc = "seq_preview"
    /\ \E ok \in BOOLEAN :
         /\ meta_preview' = IF ok THEN Uris[idx] ELSE 0
         /\ Charge(Cost(~ok))
    /\ pc' = "seq_skipcheck"
    /\ UNCHANGED <<idx, ff_proc, final_out, meta, stop_reason>>
    /\ UNCHANGED <<sigVars, curVars, sbyVars, polls, procs, files,
                   finalization_task_queue, stop_worker_event, workers,
                   tasks_made, putlog, logVars, drvLog>>

\* skip_existing_file and spotify_id_for_check and final_out.exists() and
\* st_size >= MIN_FILE_BYTES and is_already_recorded_by_spotify_id(...)
SkipDecisionNever == FALSE
SkipDecision ==
    /\ skip_existing_file
    /\ meta_preview # 0
    /\ Exists(FinalPath(meta_preview))
    /\ files[FinalPath(meta_preview)].size >= MIN_FILE_BYTES
    /\ files[FinalPath(meta_preview)].tag = meta_preview

SeqSkipCheck ==
    /\ pc = "seq_skipcheck"
    /\ IF SkipDecision
       THEN /\ NextTrack
            /\ skipped' = skipped \cup {idx}
       ELSE /\ pc' = "seq_arm"
            /\ UNCHANGED <<locVars, skipped>>
    /\ UNCHANGED <<envVars, curVars, sbyVars, polls, procs, files,
                   finalization_task_queue, stop_worker_event, workers,
                   tasks_made, putlog, logVars, playcmds, play_failed, settled>>

\* ff_proc = start_ffmpeg(.., temp_out, ..); armed_start_iso = now; preroll.
\* Popen raising (no such executable) ends the run.
SeqArmNoSpawn ==
    /\ pc = "seq_arm"
    /\ pc' = "seq_play"
    /\ UNCHANGED locVars
    /\ UNCHANGED <<envVars, curVars, sbyVars, polls, procs, files,
                   finalization_task_queue, stop_worker_event, workers,
                   tasks_made, putlog, logVars, drvLog>>
SeqArm ==
    /\ pc = "seq_arm"
    /\ \/ /\ procs' = Spawned(procs, ArmingPath(idx), idx)
          /\ ff_proc' = Len(procs) + 1
          /\ pc' = "seq_play"
          /\ Charge(0)
       \/ /\ pc' = "crashed"
          /\ Charge(1)
          /\ UNCHANGED <<procs, ff_proc>>
    /\ UNCHANGED <<idx, meta_preview, final_out, meta, stop_reason>>
    /\ UNCHANGED <<sigVars, curVars, sbyVars, polls, files,
                   finalization_task_queue, stop_worker_event, workers,
                   tasks_made, putlog, logVars, drvLog>>

\* safe_spotify_call(sp.start_playback, uris=[uri]): the call may raise on
\* each of its attempts; safe_spotify_call prints every Exception and returns
\* None, so the except branch after it is never taken and the loop body goes
\* on to the settle delay either way
SeqPlay ==
    /\ pc = "seq_play"
    /\ playcmds' = Append(playcmds, idx)
    /\ \E ok \in BOOLEAN :
         /\ play_failed' = IF ok THEN play_failed ELSE play_failed \cup {idx}
         /\ Charge(Cost(~ok))
    /\ UNCHANGED <<skipped, settled>>
    /\ pc' = "seq_confirm"
    /\ UNCHANGED locVars
    /\ UNCHANGED <<sigVars, curVars, sbyVars, polls, procs, files,
                   finalization_task_queue, stop_worker_event, workers,
                   tasks_made, putlog, logVars>>

LogFailedTrack(log, uri) == log \cup {[kind |-> "link", id |-> uri, of |-> 0]}

\* current_recording_info = {...} of play_and_record_playlist
SeqInfo(m) ==
    [task_no |-> tasks_made + 1, process_obj |-> ff_proc, track_id |-> m.id,
     audio_path |-> ArmingPath(idx),
     final_path |-> FinalPath(m.id), metadata |-> Meta(m), stop_reason |-> "",
     rewrite_enabled |-> rewrite_headers_enabled]

\* time.sleep(0.25); meta_now = current_track(sp) or {...}; no id: failure,
\* else register the capture and enter record_one_track_blocking
SeqConfirm ==
    /\ pc = "seq_confirm"
    /\ \E m \in Snapshots :
         IF ~m.present \/ m.id = 0
         THEN /\ failed' = LogFailedTrack(failed, Uris[idx])
              /\ pc' = "seq_fail_cleanup"
              /\ Charge(1)
              /\ UNCHANGED <<final_out, curVars, tasks_made>>
         ELSE /\ final_out' = FinalPath(m.id)
              /\ Charge(Cost(m.id # Uris[idx]) + Cost(m.duration_ms = 0))
              /\ current_ffmpeg_process' = ff_proc
              /\ current_recording_info' = SeqInfo(m)
              /\ tasks_made' = tasks_made + 1
              /\ pc' = "rec_start"
              /\ UNCHANGED failed
    /\ UNCHANGED <<idx, meta_preview, ff_proc, meta, stop_reason>>
    /\ UNCHANGED <<sigVars, sbyVars, polls, procs, files,
                   finalization_task_queue, stop_worker_event, workers,
                   putlog, metalog, measured, embedded, donelog, drvLog>>

\* kill_ffmpeg(ff_proc); temp_out.unlink(missing_ok=True); continue
SeqFailCleanup ==
    /\ pc = "seq_fail_cleanup"
    /\ procs' = KillFfmpeg(procs, ff_proc)
    /\ files' = Remove(files, ArmingPath(idx))
    /\ NextTrack
    /\ UNCHANGED <<envVars, curVars, sbyVars, polls,
                   finalization_task_queue, stop_worker_event, workers,
                   tasks_made, putlog, logVars, drvLog>>

\* after record_one_track_blocking: the size check of final_out, the gap
SeqCheck ==
    /\ pc = "seq_check"
    /\ failed' = IF ~Exists(final_out) \/ files[final_out].size < CHECK_MIN_BYTES
                 THEN LogFailedTrack(failed, Uris[idx]) ELSE failed
    /\ NextTrack
    /\ UNCHANGED <<envVars, curVars, sbyVars, polls, procs, files,
                   finalization_task_queue, stop_worker_event, workers,
                   tasks_made, putlog, metalog, measured, embedded, donelog, drvLog>>

\* ----------------------------------------------- record_one_track_blocking
\* a finalization_worker thread that holds no task
NewWorker == [pc |-> "idle"]

\* the interpreter exits on an uncaught KeyboardInterrupt: the threads, the
\* queue and every variable of the program are gone; processes, files and
\* what was written stay
Gone ==
    /\ idx' = 0
    /\ meta_preview' = 0
    /\ ff_proc' = 0
    /\ final_out' = NoPath
    /\ meta' = NoMeta
    /\ stop_reason' = ""
    /\ current_ffmpeg_process' = 0
    /\ current_recording_info' = EmptyInfo
    /\ io_standby_proc' = 0
    /\ io_standby_file' = NoPath
    /\ loc_standby_proc' = 0
    /\ loc_standby_file' = NoPath
    /\ polls' = 0
    /\ finalization_task_queue' = <<>>
    /\ stop_worker_event' = FALSE
    /\ workers' = <<>>

\* worker = threading.Thread(target=finalization_worker, ...); worker.start()
RecStart ==
    /\ pc = "rec_start"
    /\ workers' = Append(workers, NewWorker)
    /\ pc' = "rec_poll"
    /\ UNCHANGED locVars
    /\ UNCHANGED <<envVars, curVars, sbyVars, polls, procs, files,
                   finalization_task_queue, stop_worker_event,
                   tasks_made, putlog, logVars, drvLog>>

\* one turn of "while True": meta = current_track(sp), the stop decision, and
\* time.sleep(polling_interval_seconds) when the recording goes on
RecPoll ==
    /\ pc = "rec_poll"
    /\ \E m \in Snapshots :
         LET r == IF current_ffmpeg_process = 0 THEN ""
                  ELSE StopReason(m, current_recording_info.track_id)
         IN  /\ meta' = m
             /\ stop_reason' = r
             /\ pc' = IF r # "" THEN "rec_kill" ELSE "rec_poll"
    /\ UNCHANGED <<idx, meta_preview, ff_proc, final_out>>
    /\ UNCHANGED <<envVars, curVars, sbyVars, polls, procs, files,
                   finalization_task_queue, stop_worker_event, workers,
                   tasks_made, putlog, logVars, drvLog>>

\* kill_ffmpeg(current_ffmpeg_process); meta is not read after the decision
RecKillSkipped ==
    /\ pc = "rec_kill"
    /\ pc' = "rec_put"
    /\ meta' = NoMeta
    /\ UNCHANGED <<idx, meta_preview, ff_proc, final_out, stop_reason>>
    /\ UNCHANGED <<envVars, curVars, sbyVars, polls, procs, files,
                   finalization_task_queue, stop_worker_event, workers,
                   tasks_made, putlog, logVars, drvLog>>
RecKill ==
    /\ pc = "rec_kill"
    /\ procs' = KillFfmpeg(procs, current_ffmpeg_process)
    /\ \E out \in Outcomes :
         /\ files' = Ended(files, procs, current_ffmpeg_process, out)
         /\ Charge(Cost(out # FullSize))
    /\ pc' = "rec_put"
    /\ meta' = NoMeta
    /\ UNCHANGED <<idx, meta_preview, ff_proc, final_out, stop_reason>>
    /\ UNCHANGED <<sigVars, curVars, sbyVars, polls,
                   finalization_task_queue, stop_worker_event, workers,
                   tasks_made, putlog, logVars, drvLog>>

\* what putlog keeps of a task that was put
Put(snap) == [task_no |-> snap.task_no, stop_reason |-> snap.stop_reason,
              process_obj |-> snap.process_obj, audio_path |-> snap.audio_path]

\* snap = current_recording_info.copy(); snap["stop_reason"] = stop_reason;
\* finalization_task_queue.put(snap)
RecPut ==
    /\ pc = "rec_put"
    /\ finalization_task_queue' =
           Append(finalization_task_queue, Snap(current_recording_info, stop_reason))
    /\ putlog' = Append(putlog, Put(Snap(current_recording_info, stop_reason)))
    /\ pc' = "rec_gap"
    /\ UNCHANGED locVars
    /\ UNCHANGED <<envVars, curVars, sbyVars, polls, procs, files,
                   stop_worker_event, workers, tasks_made, logVars, drvLog>>

\* time.sleep(gap_seconds); current_ffmpeg_process = None;
\* current_recording_info = {}; break. The names are rebound: the dict that
\* was copied into the queue is not touched.
RecClearShared ==
    /\ pc = "rec_gap"
    /\ current_ffmpeg_process' = 0
    /\ current_recording_info' = EmptyInfo
    /\ finalization_task_queue' =
           [i \in 1..Len(finalization_task_queue) |-> EmptyInfo]
    /\ settled' = settled \cup {current_recording_info.task_no}
    /\ pc' = "fin_set"
    /\ UNCHANGED locVars
    /\ UNCHANGED <<envVars, sbyVars, polls, procs, files,
                   stop_worker_event, workers,
                   tasks_made, putlog, logVars, playcmds, skipped, play_failed>>
RecClear ==
    /\ pc = "rec_gap"
    /\ current_ffmpeg_process' = 0
    /\ current_recording_info' = EmptyInfo
    /\ settled' = settled \cup {current_recording_info.task_no}
    /\ pc' = "fin_set"
    /\ UNCHANGED locVars
    /\ UNCHANGED <<envVars, sbyVars, polls, procs, files,
                   finalization_task_queue, stop_worker_event, workers,
                   tasks_made, putlog, logVars, playcmds, skipped, play_failed>>

\* finally: stop_worker_event.set(); kill_ffmpeg(current_ffmpeg_process)
FinSetKill ==
    /\ pc = "fin_set"
    /\ stop_worker_event' = TRUE
    /\ procs' = KillFfmpeg(procs, current_ffmpeg_process)
    /\ \E out \in Outcomes :
         /\ files' = Ended(files, procs, current_ffmpeg_process, out)
         /\ Charge(Cost(out # FullSize))
    /\ pc' = "fin_join"
    /\ UNCHANGED locVars
    /\ UNCHANGED <<sigVars, curVars, sbyVars, polls,
                   finalization_task_queue, workers,
                   tasks_made, putlog, logVars, drvLog>>

\* finally: worker.join(timeout=10) returns when the worker has ended or, the
\* worker being in the middle of a task, the ten seconds are over (an idle
\* worker sees the event within the second its get() waits); stop_worker_event.clear(); current_ffmpeg_process =
\* None; current_recording_info = {}; then return, or re-raise the interruption
FinJoinClear ==
    /\ pc = "fin_join"
    /\ workers[Len(workers)].pc = "stopped" \/ finalization_task_queue # <<>>
    /\ IF raising
       THEN /\ pc' = "aborted"
            /\ Gone
       ELSE /\ pc' = "seq_check"
            /\ stop_worker_event' = FALSE
            /\ current_ffmpeg_process' = 0
            /\ current_recording_info' = EmptyInfo
            /\ stop_reason' = ""
            /\ UNCHANGED <<idx, meta_preview, ff_proc, final_out, meta>>
            /\ UNCHANGED <<sbyVars, polls, finalization_task_queue, workers>>
    /\ UNCHANGED <<envVars, procs, files, tasks_made, putlog, logVars, drvLog>>

\* ------------------------------------------------------ finalization_worker
\* the interpreter is still running: daemon threads die with the main thread
Running == pc \notin {"done", "aborted", "crashed"}

WorkerAt(w, at) == w \in 1..Len(workers) /\ workers[w].pc = at /\ Running

WorkerFrame ==
    /\ UNCHANGED <<pc, locVars>>
    /\ UNCHANGED <<sigVars, curVars, sbyVars, polls,
                   stop_worker_event, tasks_made, putlog, drvLog>>

\* "while not stop_worker_event.is_set() or not finalization_task_queue.empty()"
\* is false, also after a get() that timed out: the thread ends
WStop(w) ==
    /\ WorkerAt(w, "idle")
    /\ stop_worker_event /\ finalization_task_queue = <<>>
    /\ workers' = [workers EXCEPT ![w].pc = "stopped"]
    /\ UNCHANGED <<procs, files, finalization_task_queue, logVars, faults>>
    /\ WorkerFrame

\* robust_move(temp_path, final_path): src.replace(dst), shutil.move twice
Moved(fs, src, dst) == Store(Remove(fs, src), dst, fs[src])

\* rewrite_ok = rewrite_headers(audio_path, ffmpeg_path):
\*   "ok"    the stream copy replaced the original, returns True
\*   "no"    returns False, the original untouched
\*   "raise" subprocess.run raised (TimeoutExpired): the outer except
\*   "lost"  audio_path.unlink() done, tmp.rename raised, finally removed tmp
RewriteResults == {"ok", "no", "raise", "lost"}

\* rec_sec = (datetime.now(timezone.utc) - st_dt).total_seconds(): the clock
\* is the environment's, and between the arm timestamp and this read the
\* driving loop has slept, so the worker measures some rec_sec > 0
RecSecs == 1..MaxRec
\* min_required = max(sp_dur - 3.0, 0.0), in ms
MinRequiredNoSlack(task) == task.metadata.duration_ms
MinRequired(task) == MaxOf(task.metadata.duration_ms - SHORTFALL_MS, 0)
\* if rec_sec > 0 and rec_sec < min_required
TooShortNever(task, rec_sec) == FALSE
TooShort(task, rec_sec) == rec_sec > 0 /\ rec_sec * 1000 < MinRequired(task)

\* embed_flac(audio_path, meta, cover): the tags, SPOTIFY_TRACK_ID when the
\* metadata has an id, are saved, or the error is printed
Embedded(fs, a, task, saved) ==
    IF saved /\ a \in DOMAIN fs /\ task.metadata.id # 0
    THEN [fs EXCEPT ![a].tag = task.metadata.id] ELSE fs

\* the entry appended to aurora_metadata.jsonl
LogEntry(task, a) ==
    [task_no |-> task.task_no, stop_reason |-> task.stop_reason, filename |-> a]

\* finalization_task_queue.task_done() by worker w for the task, and the way
\* the turn of the loop ended: "small" the size check, "error" / "raise" /
\* "lost" the outer except, "short" the duration check, "logged" the end
Done(w, task, a, how) ==
    [by |-> w, of |-> task.task_no, path |-> a, outcome |-> how]

\* where the worker is after a turn that ended the given way: the outer
\* "except Exception" prints the error and marks the task done, "continue"
\* and the end of the body lead back to the while condition
SurvivesNoExcept(how) ==
    IF how \in {"error", "raise", "lost"} THEN "stopped" ELSE "idle"
Survives(how) == "idle"

\* one turn of the worker's loop with a task: get(timeout=1); wait for the
\* process (communicate, kill on timeout); move out of __arming__, keeping
\* temp_path on "Move failed"; the size check (a missing or small file is
\* dropped with task_done(), audio_path None raises into the outer except);
\* rewrite_headers; the duration check (too short: unlink, failed_tracks.txt,
\* task_done()); embed_flac; the log entry; task_done()
Finalize(w) ==
    /\ WorkerAt(w, "idle")
    /\ finalization_task_queue # <<>>
    /\ finalization_task_queue' = Tail(finalization_task_queue)
    /\ LET t == Head(finalization_task_queue)
           proc == t.process_obj
           running == proc # 0 /\ procs[proc].alive
           arming == t.audio_path.dir = "__arming__"
       IN  /\ procs' = IF running THEN [procs EXCEPT ![proc].alive = FALSE] ELSE procs
           /\ \E out \in IF running THEN Outcomes ELSE {0},
                 mv \in IF arming THEN BOOLEAN ELSE {FALSE} :
                LET fs0 == Ended(files, procs, proc, out)
                    moves == arming /\ mv /\ t.audio_path \in DOMAIN fs0
                    a == IF moves THEN t.final_path ELSE t.audio_path
                    fs1 == IF moves THEN Moved(fs0, t.audio_path, t.final_path) ELSE fs0
                    kept == a # NoPath /\ a \in DOMAIN fs1
                            /\ fs1[a].size > WORKER_MIN_BYTES
                    n == Cost(running /\ out # FullSize) + Cost(arming /\ ~mv)
                IN  IF ~kept
                    THEN /\ files' = fs1
                         /\ Charge(n)
                         /\ donelog' = Append(donelog,
                                Done(w, t, a, IF a = NoPath THEN "error" ELSE "small"))
                         /\ UNCHANGED <<metalog, failed, measured, embedded>>
                    ELSE \E rw \in IF t.rewrite_enabled THEN RewriteResults ELSE {"no"} :
                         IF rw \in {"raise", "lost"}
                         THEN /\ files' = IF rw = "lost" THEN Remove(fs1, a) ELSE fs1
                              /\ Charge(n + 1)
                              /\ donelog' = Append(donelog, Done(w, t, a, rw))
                              /\ UNCHANGED <<metalog, failed, measured, embedded>>
                         ELSE \E rec_sec \in RecSecs :
                              IF TooShort(t, rec_sec)
                              THEN /\ files' = Remove(fs1, a)
                                   /\ Charge(n)
                                   /\ failed' = failed \cup {[kind |-> "title",
                                                              id |-> t.metadata.id,
                                                              of |-> t.task_no]}
                                   /\ measured' = measured \cup
                                          {[of |-> t.task_no, rec_sec |-> rec_sec,
                                            duration_ms |-> t.metadata.duration_ms]}
                                   /\ donelog' = Append(donelog, Done(w, t, a, "short"))
                                   /\ UNCHANGED <<metalog, embedded>>
                              ELSE \E saved \in BOOLEAN :
                                   /\ files' = Embedded(fs1, a, t, saved)
                                   /\ Charge(n + Cost(~saved))
                                   /\ embedded' = embedded \cup {t.task_no}
                                   /\ measured' = measured \cup
                                          {[of |-> t.task_no, rec_sec |-> rec_sec,
                                            duration_ms |-> t.metadata.duration_ms]}
                                   /\ metalog' = Append(metalog, LogEntry(t, a))
                                   /\ donelog' = Append(donelog, Done(w, t, a, "logged"))
                                   /\ UNCHANGED failed
    /\ workers' = [workers EXCEPT
                      ![w].pc = Survives(donelog'[Len(donelog')].outcome)]
    /\ WorkerFrame

\* ------------------------------------------- ensure_standby / drop_standby
\* standby_ffmpeg_process is None or standby_ffmpeg_process.poll() is not None
NeedStandbyAlways(ps) == TRUE
NeedStandby(ps) == io_standby_proc = 0 \/ ~ps[io_standby_proc].alive

\* ensure_standby(st), on aurora_io's globals: arm standby_<int(time.time())>
EnsureStandby ==
    IF NeedStandby(procs)
    THEN \E t \in Stamps :
           /\ procs' = Spawned(procs, StandbyPath(t), 0)
           /\ io_standby_proc' = Len(procs) + 1
           /\ io_standby_file' = StandbyPath(t)
    ELSE UNCHANGED <<procs, io_standby_proc, io_standby_file>>

\* ---------------------------------------------------- manual_follow_current
\* worker.start(); "from aurora_io import ..., standby_ffmpeg_process,
\* standby_file" binds the function's locals to the values the module holds
\* at this moment; then ensure_standby(st)
FolStart ==
    /\ pc = "fol_start"
    /\ workers' = Append(workers, NewWorker)
    /\ loc_standby_proc' = io_standby_proc
    /\ loc_standby_file' = io_standby_file
    /\ EnsureStandby
    /\ pc' = "fol_poll"
    /\ UNCHANGED locVars
    /\ UNCHANGED <<envVars, curVars, polls, files, finalization_task_queue,
                   stop_worker_event, tasks_made, putlog, logVars, drvLog>>

\* current_recording_info = {...} of manual_follow_current: process_obj and
\* audio_path are read from the function's locals
FollowInfoFromModule(m) ==
    [task_no |-> tasks_made + 1, process_obj |-> io_standby_proc, track_id |-> m.id,
     audio_path |-> io_standby_file,
     final_path |-> FinalPath(m.id), metadata |-> Meta(m), stop_reason |-> "",
     rewrite_enabled |-> rewrite_headers_enabled]
FollowInfo(m) ==
    [task_no |-> tasks_made + 1, process_obj |-> loc_standby_proc, track_id |-> m.id,
     audio_path |-> loc_standby_file,
     final_path |-> FinalPath(m.id), metadata |-> Meta(m), stop_reason |-> "",
     rewrite_enabled |-> rewrite_headers_enabled]

\* one turn of the follow loop's "while True"
FolPoll ==
    /\ pc = "fol_poll"
    /\ polls < MaxPolls
    /\ polls' = polls + 1
    /\ \E m \in Snapshots :
         IF current_ffmpeg_process = 0
         THEN IF m.present /\ m.is_playing
              THEN \* adopt from the locals, clear them, _ensure(st)
                   /\ current_ffmpeg_process' = FollowInfo(m).process_obj
                   /\ current_recording_info' = FollowInfo(m)
                   /\ tasks_made' = tasks_made + 1
                   /\ loc_standby_proc' = 0
                   /\ loc_standby_file' = NoPath
                   /\ EnsureStandby
                   /\ UNCHANGED <<files, finalization_task_queue, putlog>>
              ELSE /\ EnsureStandby
                   /\ UNCHANGED <<curVars, tasks_made, loc_standby_proc,
                                  loc_standby_file, files,
                                  finalization_task_queue, putlog>>
         ELSE LET r == StopReason(m, current_recording_info.track_id)
              IN  IF r # ""
                  THEN /\ procs' = KillFfmpeg(procs, current_ffmpeg_process)
                       /\ \E out \in Outcomes :
                            files' = Ended(files, procs, current_ffmpeg_process, out)
                       /\ finalization_task_queue' =
                            Append(finalization_task_queue, Snap(current_recording_info, r))
                       /\ putlog' = Append(putlog, Put(Snap(current_recording_info, r)))
                       /\ current_ffmpeg_process' = 0
                       /\ current_recording_info' = EmptyInfo
                       /\ UNCHANGED <<tasks_made, sbyVars>>
                  ELSE UNCHANGED <<curVars, tasks_made, sbyVars, procs, files,
                                   finalization_task_queue, putlog>>
    /\ UNCHANGED <<pc, locVars>>
    /\ UNCHANGED <<envVars, stop_worker_event, workers, logVars, drvLog>>

\* finally: stop_worker_event.set(); kill_ffmpeg(current_ffmpeg_process)
FolFinSetKill ==
    /\ pc = "fol_fin_set"
    /\ stop_worker_event' = TRUE
    /\ procs' = KillFfmpeg(procs, current_ffmpeg_process)
    /\ \E out \in Outcomes : files' = Ended(files, procs, current_ffmpeg_process, out)
    /\ pc' = "fol_fin_put"
    /\ UNCHANGED locVars
    /\ UNCHANGED <<envVars, curVars, sbyVars, polls, finalization_task_queue,
                   workers, tasks_made, putlog, logVars, drvLog>>

\* finally: if current_recording_info: put the "Shutdown" snap, clear the info
FolFinPut ==
    /\ pc = "fol_fin_put"
    /\ IF current_recording_info # EmptyInfo
       THEN /\ finalization_task_queue' =
                 Append(finalization_task_queue, Snap(current_recording_info, SHUTDOWN))
            /\ putlog' = Append(putlog, Put(Snap(current_recording_info, SHUTDOWN)))
            /\ current_recording_info' = EmptyInfo
       ELSE UNCHANGED <<finalization_task_queue, putlog, current_recording_info>>
    /\ pc' = "fol_fin_drop"
    /\ UNCHANGED locVars
    /\ UNCHANGED <<envVars, current_ffmpeg_process, sbyVars, polls, procs, files,
                   stop_worker_event, workers, tasks_made, logVars, drvLog>>

\* finally: drop_standby(): kill_ffmpeg(standby_ffmpeg_process), unlink
\* standby_file, both set to None
FolFinDrop ==
    /\ pc = "fol_fin_drop"
    /\ procs' = KillFfmpeg(procs, io_standby_proc)
    /\ files' = Remove(files, io_standby_file)
    /\ io_standby_proc' = 0
    /\ io_standby_file' = NoPath
    /\ pc' = "fol_fin_join"
    /\ UNCHANGED locVars
    /\ UNCHANGED <<envVars, curVars, loc_standby_proc, loc_standby_file, polls,
                   finalization_task_queue, stop_worker_event, workers,
                   tasks_made, putlog, logVars, drvLog>>

\* finally: worker.join(timeout=10), which returns as in FinJoinClear; return
FolFinJoin ==
    /\ pc = "fol_fin_join"
    /\ workers[Len(workers)].pc = "stopped" \/ finalization_task_queue # <<>>
    /\ pc' = "done"
    /\ UNCHANGED locVars
    /\ UNCHANGED <<envVars, curVars, sbyVars, polls, procs, files,
                   finalization_task_queue, stop_worker_event, workers,
                   tasks_made, putlog, logVars, drvLog>>

\* ------------------------------------------------------------ environment
\* a standby capture ends on its own: its -t cap (standby_seconds) is reached
\* while the follow loop goes on, or it fails. An armed capture's cap is an
\* hour; what its early end leaves behind is the file its kill step chooses.
ProcExit(p) ==
    /\ Running
    /\ p \in 1..Len(procs)
    /\ procs[p].alive
    /\ procs[p].idx = 0
    /\ procs' = [procs EXCEPT ![p].alive = FALSE]
    /\ \E out \in Outcomes : files' = Ended(files, procs, p, out)
    /\ UNCHANGED <<pc, locVars>>
    /\ UNCHANGED <<envVars, curVars, sbyVars, polls,
                   finalization_task_queue, stop_worker_event, workers,
                   tasks_made, putlog, logVars, drvLog>>

\* where a KeyboardInterrupt raised before the step at pc takes control:
\* into the finally of record_one_track_blocking, into the except/finally of
\* manual_follow_current, or out of the program
InterruptTarget(at) ==
    IF at \in {"rec_poll", "rec_kill", "rec_put", "rec_gap"} THEN "fin_set"
    ELSE IF at = "fol_poll" THEN "fol_fin_set"
    ELSE "aborted"

\* the user's interruption, delivered once, before any step of the main thread
Interrupt ==
    /\ Running
    /\ ~interrupted
    /\ interrupted' = TRUE
    /\ pc' = InterruptTarget(pc)
    /\ raising' = (InterruptTarget(pc) = "fin_set")
    /\ IF InterruptTarget(pc) = "aborted"
       THEN Gone
       ELSE /\ meta' = NoMeta
            /\ stop_reason' = ""
            /\ UNCHANGED <<idx, meta_preview, ff_proc, final_out>>
            /\ UNCHANGED <<curVars, sbyVars, polls, finalization_task_queue,
                           stop_worker_event, workers>>
    /\ UNCHANGED <<cfgVars, faults, procs, files, tasks_made, putlog, logVars,
                   drvLog>>

\* ------------------------------------------------------------------ Next
Next ==
    \/ SeqPreview \/ SeqSkipCheck \/ SeqArm \/ SeqPlay \/ SeqConfirm
    \/ SeqFailCleanup \/ SeqCheck
    \/ RecStart \/ RecPoll \/ RecKill \/ RecPut \/ RecClear
    \/ FinSetKill \/ FinJoinClear
    \/ FolStart \/ FolPoll \/ FolFinSetKill \/ FolFinPut \/ FolFinDrop \/ FolFinJoin
    \/ \E w \in 1..Len(workers) :
         WStop(w) \/ Finalize(w)
    \/ \E p \in 1..Len(procs) : ProcExit(p)
    \/ Interrupt

Spec == Init /\ [][Next]_vars

\* ================================================================ claims
\* armed captures (sequential mode) that are running
ArmedAlive == {p \in 1..Len(procs) : procs[p].idx # 0 /\ procs[p].alive}
\* every capture process that is running
Alive == {p \in 1..Len(procs) : procs[p].alive}
\* how often task n was put on finalization_task_queue
Puts(n) == Cardinality({i \in 1..Len(putlog) : putlog[i].task_no = n})
\* how many entries of aurora_metadata.jsonl are task n's
Logged(n) == Cardinality({i \in 1..Len(metalog) : metalog[i].task_no = n})
\* task n is waiting on the queue
Queued(n) == \E i \in 1..Len(finalization_task_queue) :
                 finalization_task_queue[i].task_no = n

\* C1: at every instant at most one capture is active: never two capture
\* processes run at once, the sequential driver spawns the next track's
\* capture only with the controller state cleared and the previous capture
\* stopped, and follow mode registers a recording only while
\* current_ffmpeg_process holds none.
C1_Instant ==
    /\ Cardinality(Alive) <= 1
    /\ pc = "seq_arm" =>
         /\ current_ffmpeg_process = 0
         /\ current_recording_info = EmptyInfo
         /\ ArmedAlive = {}
    /\ current_ffmpeg_process # 0 =>
         current_recording_info.process_obj = current_ffmpeg_process
C1_Step ==
    /\ Len(procs') > Len(procs) /\ mode = "seq" =>
         current_ffmpeg_process = 0 /\ ArmedAlive = {}
    /\ tasks_made' # tasks_made /\ mode = "follow" => current_ffmpeg_process = 0
C2_PutExactlyOnce ==
    \A n \in 1..tasks_made :
        /\ Puts(n) <= 1
        /\ current_recording_info.task_no # n => Puts(n) = 1

\* C3: a task is on the queue only after kill_ffmpeg was invoked on the
\* process it holds and on every process writing its audio file.
C3_KilledBeforePut ==
    \A i \in 1..Len(putlog) :
        /\ putlog[i].process_obj # 0 => procs[putlog[i].process_obj].killed
        /\ \A p \in 1..Len(procs) :
             procs[p].file = putlog[i].audio_path => procs[p].killed

\* C3's case: a task that holds its capture process has been put
C3_Witness ==
    \E i \in 1..Len(putlog) :
        /\ putlog[i].process_obj # 0
        /\ procs[putlog[i].process_obj].file = putlog[i].audio_path
        /\ procs[putlog[i].process_obj].killed

\* C4: a task whose measured duration is less than the upstream duration minus
\* 3 seconds is never handed to embed_flac and has its line in
\* failed_tracks.txt.
C4_ShortNeverTagged ==
    \A x \in measured :
        x.rec_sec * 1000 < x.duration_ms - SHORTFALL_MS =>
            /\ x.of \notin embedded
            /\ \E f \in failed : f.kind = "title" /\ f.of = x.of

\* C4's case: the worker has measured a task as too short
C4_Witness ==
    \E x \in measured :
        /\ x.rec_sec * 1000 < x.duration_ms - SHORTFALL_MS
        /\ x.of \notin embedded

\* C5: every task the worker has taken off the queue has exactly one entry in
\* aurora_metadata.jsonl.
C5_LoggedExactlyOnce ==
    pc # "aborted" =>
        \A n \in 1..tasks_made :
            Puts(n) >= 1 /\ ~Queued(n) => Logged(n) = 1

\* C6: with skip_existing_file on, a track whose prospective final file
\* exists, has at least MIN_FILE_BYTES and carries the track's id as its
\* identity tag is passed over by the driver, and for a track passed over no
\* capture process is spawned, no playback is started and no task is made.
C6_Case ==
    /\ pc = "seq_skipcheck"
    /\ skip_existing_file
    /\ meta_preview # 0
    /\ FinalPath(meta_preview) \in DOMAIN files
    /\ files[FinalPath(meta_preview)].size >= MIN_FILE_BYTES
    /\ files[FinalPath(meta_preview)].tag = meta_preview
C6_Untouched ==
    \A i \in skipped :
        /\ \A p \in 1..Len(procs) : procs[p].idx # i
        /\ \A k \in 1..Len(playcmds) : playcmds[k] # i
        /\ \A k \in 1..Len(putlog) : putlog[k].audio_path # ArmingPath(i)
C6_SkipExisting ==
    /\ []C6_Untouched
    /\ [][C6_Case /\ pc' \notin {pc, "aborted"} =>
            /\ idx \in skipped'
            /\ idx' = idx + 1
            /\ procs' = procs /\ playcmds' = playcmds
            /\ finalization_task_queue' = finalization_task_queue
            /\ tasks_made' = tasks_made]_vars

\* C6's case: the first track was found recorded and passed over
C6_Witness ==
    /\ 1 \in skipped
    /\ idx = 2
    /\ files[FinalPath(1)].tag = 1
    /\ procs = <<>> /\ playcmds = <<>> /\ putlog = <<>>

\* C7: once follow mode has shut down, no file that a standby capture wrote
\* is at a final path and no entry of aurora_metadata.jsonl names a file of
\* the standby directory.
C7_StandbyNeverFinal ==
    mode = "follow" /\ pc = "done" =>
        /\ \A f \in DOMAIN files :
             files[f].origin = "__standby__" => f.dir = "__standby__"
        /\ \A i \in 1..Len(metalog) : metalog[i].filename.dir # "__standby__"

\* C7's case: follow mode registered a recording while a standby capture was
\* armed, was interrupted, put the task and shut down
C7_Witness ==
    /\ mode = "follow" /\ pc = "done"
    /\ Len(putlog) >= 1
    /\ \E p \in 1..Len(procs) : procs[p].idx = 0 /\ procs[p].killed

\* C8: in follow mode a registered recording is the adopted standby capture:
\* current_ffmpeg_process and the task's process_obj are that process and the
\* task's audio_path is the file it writes.
C8_StandbyAdopted ==
    mode = "follow" /\ current_recording_info # EmptyInfo =>
        /\ current_ffmpeg_process # 0
        /\ current_recording_info.process_obj = current_ffmpeg_process
        /\ current_recording_info.audio_path # NoPath
        /\ procs[current_ffmpeg_process].file = current_recording_info.audio_path

\* C9: the follow-mode step that registers a recording arms a fresh standby
\* capture: a new process, not the one that was the standby before, writing
\* to another scratch file.
C9_FreshStandby ==
    [][mode = "follow" /\ tasks_made' # tasks_made =>
          /\ Len(procs') = Len(procs) + 1
          /\ io_standby_proc' = Len(procs')
          /\ io_standby_proc' # io_standby_proc
          /\ io_standby_file' # io_standby_file]_vars

\* the stop decision of one poll, given whether the progress counts as within
\* the tail of the track
C10_Decision(within) ==
    pc \in {"rec_poll", "rec_kill"} /\ (pc = "rec_kill" \/ meta # NoMeta) =>
        LET gone == ~meta.present \/ ~meta.is_playing
            other == meta.id # current_recording_info.track_id
        IN  /\ gone => pc = "rec_kill" /\ stop_reason = STOPPED
            /\ ~gone /\ other => pc = "rec_kill" /\ stop_reason = CHANGED
            /\ ~gone /\ ~other /\ within =>
                   pc = "rec_kill" /\ stop_reason = FINISHED
            /\ ~gone /\ ~other /\ ~within => pc = "rec_poll" /\ stop_reason = ""
C10_Reasons ==
    \A i \in 1..Len(putlog) :
        putlog[i].stop_reason \in {STOPPED, CHANGED, FINISHED, SHUTDOWN}

\* C10 as the specification states it: absent or not playing gives stopped,
\* else another identity gives track_changed, else progress within 200 ms of
\* the total duration gives track_finished, else the recording continues; the
\* reason put is one of the four.
C10_PriorityAsStated ==
    /\ C10_Decision(meta.progress_ms >= meta.duration_ms - TAIL_MS)
    /\ C10_Reasons

\* C10: the same priority, where track_finished needs a total duration that
\* is known (positive) besides the progress within 200 ms of it.
C10_PriorityKnownDuration ==
    /\ C10_Decision(meta.duration_ms > 0
                    /\ meta.progress_ms >= meta.duration_ms - TAIL_MS)
    /\ C10_Reasons

\* C10's case: a poll at which two conditions hold at once, not playing and
\* another identity, and the earlier one decides
C10_Witness ==
    /\ pc = "rec_kill"
    /\ meta.present /\ ~meta.is_playing
    /\ meta.id # current_recording_info.track_id
    /\ stop_reason = STOPPED

\* C11: a track whose start_playback call failed is never registered or put
\* on the queue, and once the loop has advanced past it its link is in
\* failed_tracks.txt, its armed capture has been stopped and its scratch file
\* is gone.
C11_PlayFailureHandled ==
    \A i \in play_failed :
        /\ current_recording_info.audio_path # ArmingPath(i)
        /\ \A k \in 1..Len(putlog) : putlog[k].audio_path # ArmingPath(i)
        /\ idx > i =>
             /\ [kind |-> "link", id |-> Uris[i], of |-> 0] \in failed
             /\ \A p \in 1..Len(procs) :
                  procs[p].idx = i => procs[p].killed /\ ~procs[p].alive
             /\ ArmingPath(i) \notin DOMAIN files

\* C12: in sequential mode a recording is registered only when the confirming
\* poll showed the identity of the track that was requested.
C12_ConfirmMatches ==
    mode = "seq" /\ current_recording_info # EmptyInfo =>
        current_recording_info.track_id = Uris[idx]

\* C13: start_playback is issued for a track only after that track's capture
\* process was spawned (the arm timestamp is taken in the same step as the
\* spawn), and at the moment of the command that process is running.
C13_Spawned ==
    \A k \in 1..Len(playcmds) :
        \E p \in 1..Len(procs) :
            procs[p].idx = playcmds[k] /\ procs[p].file = ArmingPath(playcmds[k])
C13_Step ==
    playcmds' # playcmds =>
        /\ ff_proc \in 1..Len(procs)
        /\ procs[ff_proc].idx = idx
        /\ procs[ff_proc].alive /\ ~procs[ff_proc].killed
        /\ procs' = procs
C14_ShutdownTaskPut ==
    /\ mode = "seq" /\ pc = "fin_join" /\ raising
          /\ current_recording_info # EmptyInfo =>
            \E i \in 1..Len(putlog) :
                putlog[i].task_no = current_recording_info.task_no
    /\ mode = "follow" /\ pc \in {"fol_fin_drop", "fol_fin_join", "done"}
          /\ tasks_made > 0 =>
            \E i \in 1..Len(putlog) :
                putlog[i].task_no = tasks_made /\ putlog[i].stop_reason = SHUTDOWN

\* C15: once the interruption has been handled and the program has ended, no
\* capture process it spawned is running.
C15_NoCaptureLeft ==
    interrupted /\ pc \in {"aborted", "done"} =>
        \A p \in 1..Len(procs) : ~procs[p].alive

\* C16: a worker ends only with the stop event set and the queue empty, and no
\* task is on the queue when the driver has returned.
C16_WorkerExit ==
    \A w \in 1..Len(workers) :
        w <= Len(workers') /\ workers[w].pc # "stopped"
                           /\ workers'[w].pc = "stopped" =>
            stop_worker_event /\ finalization_task_queue = <<>>
C16_Drained == pc = "done" => finalization_task_queue = <<>>
C16_AllProcessed == []C16_Drained /\ [][C16_WorkerExit]_vars

\* C17: without an interruption the sequential run never ends early: it ends
\* only with every identifier of the list either passed over as recorded or
\* armed.
C17_FailureIsolated ==
    mode = "seq" /\ ~interrupted =>
        /\ pc # "crashed"
        /\ pc = "done" =>
             \A i \in 1..NTracks :
                 i \in skipped \/ \E p \in 1..Len(procs) : procs[p].idx = i

\* C18: in follow mode, when a recording for another track takes the place of
\* the registered one, the old recording's task has been put on the queue with
\* stop reason track_changed.
C18_TrackChanged ==
    [][mode = "follow" /\ current_recording_info # EmptyInfo
          /\ tasks_made' = tasks_made + 1
          /\ current_recording_info'.track_id # current_recording_info.track_id =>
            \E i \in 1..Len(putlog') :
                /\ putlog'[i].task_no = current_recording_info.task_no
                /\ putlog'[i].stop_reason = CHANGED]_vars

\* the task of a duration check was put with stop reason track_finished and
\* was measured at no less than the upstream duration minus 3 seconds
C19_Case(x) ==
    /\ x.rec_sec * 1000 >= x.duration_ms - SHORTFALL_MS
    /\ \E i \in 1..Len(putlog) :
         putlog[i].task_no = x.of /\ putlog[i].stop_reason = FINISHED

\* C19: a task that stopped with track_finished and passed the duration check
\* was handed to embed_flac, has exactly one entry in aurora_metadata.jsonl
\* and no line of the worker in failed_tracks.txt; when no file operation
\* failed, the entry names the final path and the file there carries the
\* track's identity tag.
C19_FinishedKept ==
    \A x \in measured :
        C19_Case(x) =>
            /\ x.of \in embedded
            /\ Logged(x.of) = 1
            /\ \A f \in failed : ~(f.kind = "title" /\ f.of = x.of)
            /\ faults = 0 =>
                 \E k \in 1..Len(metalog) :
                     /\ metalog[k].task_no = x.of
                     /\ metalog[k].filename.dir = "final"
                     /\ metalog[k].filename \in DOMAIN files
                     /\ files[metalog[k].filename].size > WORKER_MIN_BYTES
                     /\ files[metalog[k].filename].tag = metalog[k].filename.n

\* C19's case: a track played to its end was finalized in a run without faults
C19_Witness ==
    \E x \in measured :
        /\ C19_Case(x)
        /\ x.duration_ms > 0
        /\ faults = 0
        /\ Logged(x.of) = 1

\* the duration check found the task too short
C20_Short(x) == x.rec_sec * 1000 < x.duration_ms - SHORTFALL_MS

\* C20: a task discarded by the duration check has no entry in
\* aurora_metadata.jsonl, was not handed to embed_flac and has its line in
\* failed_tracks.txt; the step that discards it leaves no file at the task's
\* scratch path and none of its at the final path.
C20_Discarded ==
    \A x \in measured :
        C20_Short(x) =>
            /\ Logged(x.of) = 0
            /\ x.of \notin embedded
            /\ Cardinality({f \in failed : f.kind = "title" /\ f.of = x.of}) = 1
C20_Step ==
    \A x \in measured' \ measured :
        C20_Short(x) =>
            LET t == Head(finalization_task_queue)
            IN  /\ t.task_no = x.of
                /\ t.audio_path \notin DOMAIN files'
                /\ t.final_path \in DOMAIN files' =>
                     /\ t.final_path \in DOMAIN files
                     /\ files'[t.final_path] = files[t.final_path]
                /\ metalog' = metalog /\ embedded' = embedded
C20_ShortDiscarded == []C20_Discarded /\ [][C20_Step]_vars

\* C20's case: a recording cut short was discarded by the worker
C20_Witness ==
    \E x \in measured :
        /\ C20_Short(x)
        /\ Logged(x.of) = 0
        /\ \E i \in 1..Len(putlog) :
             putlog[i].task_no = x.of /\ putlog[i].audio_path \notin DOMAIN files

\* the task_done() a step has just added to donelog
NewDone == donelog'[Len(donelog')]
\* how often task n was marked done
Dones(n) == Cardinality({i \in 1..Len(donelog) : donelog[i].of = n})

\* C21: a task that ends a recording (any reason but shutdown) is put on the
\* queue only after kill_ffmpeg was called on its process and after the settle
\* window of that recording is over, and while it is still the registered
\* recording (the state is cleared after the put).
C21_OrderedStop ==
    [][Len(putlog') > Len(putlog)
          /\ putlog'[Len(putlog')].stop_reason # SHUTDOWN =>
            LET e == putlog'[Len(putlog')]
            IN  /\ e.process_obj # 0 => procs[e.process_obj].killed
                /\ e.task_no \in settled
                /\ current_recording_info.task_no = e.task_no]_vars

\* C22: a task whose header rewrite raised is still handed to embed_flac and
\* still gets its entry in aurora_metadata.jsonl.
C22_StepsIndependent ==
    \A i \in 1..Len(donelog) :
        donelog[i].outcome \in {"raise", "lost"} =>
            /\ donelog[i].of \in embedded
            /\ Logged(donelog[i].of) = 1

\* C23: no task is marked done twice, every task taken off the queue is
\* marked done once, and the worker that marked it, also after an exception,
\* is back at the head of its loop.
C23_Once ==
    \A n \in 1..tasks_made :
        /\ Dones(n) <= 1
        /\ pc # "aborted" /\ Puts(n) >= 1 /\ ~Queued(n) => Dones(n) = 1
C23_Step ==
    Len(donelog') > Len(donelog) =>
        /\ Len(donelog') = Len(donelog) + 1
        /\ Len(finalization_task_queue') = Len(finalization_task_queue) - 1
        /\ workers'[NewDone.by].pc = "idle"
C23_WorkerSurvives == []C23_Once /\ [][C23_Step]_vars

\* C23's case: a worker whose turn ended in the outer except has processed
\* another task afterwards
C23_Witness ==
    \E i, j \in 1..Len(donelog) :
        /\ i < j
        /\ donelog[i].outcome \in {"error", "raise", "lost"}
        /\ donelog[j].by = donelog[i].by

\* C24: when the worker drops a task at the size check, the output is gone
\* afterwards, the task is not tagged, and failed_tracks.txt has a line for it.
C24_SmallDiscarded ==
    [][Len(donelog') > Len(donelog) /\ NewDone.outcome = "small" =>
          /\ NewDone.path \notin DOMAIN files'
          /\ NewDone.of \notin embedded'
          /\ \E f \in failed' : f.kind = "title" /\ f.of = NewDone.of]_vars

\* C25: after a turn in which rewrite_headers ran (the task passed the size
\* check with rewriting enabled) and the duration check did not discard the
\* file, a non-trivial audio file is at the path that was rewritten.
C25_RewriteKeepsAudio ==
    [][Len(donelog') > Len(donelog)
          /\ Head(finalization_task_queue).rewrite_enabled
          /\ NewDone.outcome \in {"raise", "lost", "logged"} =>
            /\ NewDone.path \in DOMAIN files'
            /\ files'[NewDone.path].size > WORKER_MIN_BYTES]_vars

\* C26: while the program runs, at most one finalization worker thread has
\* not ended.
C26_SingleConsumer ==
    Running => Cardinality({w \in 1..Len(workers) : workers[w].pc # "stopped"}) <= 1

\* C27: the queue only grows at its end and shrinks at its head (or vanishes
\* with the interpreter): no step changes a task that is on it; a worker's
\* turn leaves the controller's current-capture state alone, and what it logs
\* is the stop reason the task was put with.
C27_Step ==
    /\ Len(finalization_task_queue') >= Len(finalization_task_queue) =>
         SubSeq(finalization_task_queue', 1, Len(finalization_task_queue))
             = finalization_task_queue
    /\ Len(finalization_task_queue') < Len(finalization_task_queue) =>
         \/ finalization_task_queue' = Tail(finalization_task_queue)
         \/ finalization_task_queue' = <<>>
    /\ Len(donelog') > Len(donelog) =>
         /\ current_ffmpeg_process' = current_ffmpeg_process
         /\ current_recording_info' = current_recording_info
C27_AsPut ==
    /\ \A k \in 1..Len(metalog) :
         \E i \in 1..Len(putlog) :
             /\ putlog[i].task_no = metalog[k].task_no
             /\ putlog[i].stop_reason = metalog[k].stop_reason
    /\ \A k \in 1..Len(finalization_task_queue) :
         \E i \in 1..Len(putlog) :
             putlog[i] = Put(finalization_task_queue[k])
C27_TaskFrozen == []C27_AsPut /\ [][C27_Step]_vars

\* C27's case: the driver has cleared its state to IDLE and armed the next
\* track while the previous track's task is still on the queue
C27_Witness ==
    /\ finalization_task_queue # <<>>
    /\ current_recording_info # EmptyInfo
    /\ Head(finalization_task_queue).task_no # current_recording_info.task_no
    /\ Head(finalization_task_queue).track_id # 0

\* C28: when the driver makes its size check after record_one_track_blocking,
\* the track's task is no longer waiting for its finalization, and the track
\* is logged as failed exactly when the file at final_out is missing or below
\* the threshold.
C28_CheckSeesOutcome ==
    [][pc = "seq_check" /\ idx' = idx + 1 =>
          /\ \A k \in 1..Len(finalization_task_queue) :
               finalization_task_queue[k].audio_path # ArmingPath(idx)
          /\ [kind |-> "link", id |-> Uris[idx], of |-> 0] \in failed'
               <=> \/ final_out \notin DOMAIN files
                   \/ files[final_out].size < CHECK_MIN_BYTES]_vars

\* C29: every entry of aurora_metadata.jsonl names a file outside __arming__
\* and __standby__, and embed_flac is only called on a file at a final path.
C29_ScratchNeverFinal ==
    /\ \A k \in 1..Len(metalog) : metalog[k].filename.dir = "final"
    /\ \A i \in 1..Len(donelog) :
         donelog[i].outcome = "logged" => donelog[i].path.dir = "final"

\* standby captures that are running
StandbyAlive == {p \in 1..Len(procs) : procs[p].idx = 0 /\ procs[p].alive}

\* C30: never two standby captures are running, and a standby capture is
\* spawned only when aurora_io holds none or the one it holds has exited.
C30_Step ==
    Len(procs') > Len(procs) /\ procs'[Len(procs')].idx = 0 =>
        /\ io_standby_proc = 0 \/ ~procs[io_standby_proc].alive
        /\ StandbyAlive = {}
C30_OneStandby == [](Cardinality(StandbyAlive) <= 1) /\ [][C30_Step]_vars

\* C30's case: the standby capture ended on its own and the follow loop has
\* armed another
C30_Witness ==
    /\ Len(procs) = 2
    /\ procs[1].idx = 0 /\ ~procs[1].alive /\ ~procs[1].killed
    /\ procs[2].idx = 0 /\ procs[2].alive
    /\ io_standby_proc = 2

\* C31: once drop_standby has run on the shutdown path of follow mode, no
\* standby capture is running and no file is left in __standby__.
C31_StandbyCleared ==
    mode = "follow" /\ pc \in {"fol_fin_join", "done"} =>
        /\ StandbyAlive = {}
        /\ \A f \in DOMAIN files : f.dir # "__standby__"

\* C32: while a sequential run goes on, no worker started for an earlier
\* track sits in its loop with the queue empty and the stop event unset
\* (where nothing but a later call's stop signal can end it).
C32_WorkersEnd ==
    mode = "seq" /\ Running =>
        \A w \in 1..Len(workers) :
            w < Len(workers) =>
                ~(/\ workers[w].pc = "idle"
                  /\ finalization_task_queue = <<>>
                  /\ ~stop_worker_event)

====
